---- MODULE Spec2Model ----
(***************************************************************************)
(* A model of the calendar era provider structs (EraStartDate, its derived *)
(* ordering, its fixed-width record form and its text parser), of the era  *)
(* table lookup built on them, and of the baked locale-fallback parents    *)
(* map (its two byte buffers, the lookups over them and the parent walk).  *)
(***************************************************************************)
EXTENDS Integers, Sequences, FiniteSets, TLC

VARIABLES
    a, b, cmpResult, bytes, decoded, dateOp,
    table, query, resolved, eraOp,
    input, parsed, parseOp,
    fmap, key, got, mapOp,
    wmap, start, chain, steps, status,
    parts, built, ctorErr, ctorOp, probe, probed,
    seqItems, seqBuf, seqAt, seqEntry, seqOp

dateVars == <<a, b, cmpResult, bytes, decoded, dateOp>>
eraVars == <<table, query, resolved, eraOp>>
parseVars == <<input, parsed, parseOp>>
mapVars == <<fmap, key, got, mapOp>>
walkVars == <<wmap, start, chain, steps, status>>
ctorVars == <<parts, built, ctorErr, ctorOp, probe, probed>>
seqVars == <<seqItems, seqBuf, seqAt, seqEntry, seqOp>>
vars == <<dateVars, eraVars, parseVars, mapVars, walkVars, ctorVars, seqVars>>

None == "none"

-----------------------------------------------------------------------------
(* Integer types of the record fields.                                     *)

I32Bits == 32
U8Bits == 8

RECURSIVE Pow2(_)
Pow2(n) == IF n = 0 THEN 1 ELSE 2 * Pow2(n - 1)

\* TLC's integers are themselves 32 bits wide, so the two ends of the
\* i32 range are written without ever forming 2^31.
MinI32 == (-Pow2(I32Bits - 2)) * 2
MaxI32 == (Pow2(I32Bits - 2) - 1) + Pow2(I32Bits - 2)
MaxU8 == Pow2(U8Bits) - 1

IsI32(x) == x \in Int /\ MinI32 <= x /\ x <= MaxI32
IsU8(x) == x \in Int /\ 0 <= x /\ x <= MaxU8

-----------------------------------------------------------------------------
(* Bounds of the date samples.                                             *)

YearSpan == 1

\* Years near both ends of the i32 range, around zero, and two years whose
\* four bytes all differ.
Years ==
    {MinI32 + k : k \in 0 .. YearSpan} \cup ((-YearSpan) .. YearSpan)
        \cup {MaxI32 - k : k \in 0 .. YearSpan} \cup {16909060, -16909060}
Months == {1, 12}
Days == {1, 31}

Dates == [year : Years, month : Months, day : Days]

-----------------------------------------------------------------------------
(* EraStartDate: the struct and its derived ordering.                      *)

\* The fields of the struct, in declaration order.
MonthFirstFields == <<"month", "year", "day">>
EraStartDateFields == <<"year", "month", "day">>

EraStartDate(y, m, d) == [year |-> y, month |-> m, day |-> d]

\* Ord of the primitive integer types: the comparison of the values.
UnsignedCmp(x, y) ==
    IF (x < 0) # (y < 0)
    THEN (IF y < 0 THEN "Less" ELSE "Greater")
    ELSE IF x < y THEN "Less" ELSE IF x > y THEN "Greater" ELSE "Equal"
IntCmp(x, y) == IF x < y THEN "Less" ELSE IF x > y THEN "Greater" ELSE "Equal"

\* derive(PartialOrd, Ord): the fields are compared in declaration order and
\* the first one that differs decides.
RECURSIVE DeriveCmpFrom(_, _, _)
DeriveCmpFrom(x, y, i) ==
    IF i > Len(EraStartDateFields) THEN "Equal"
    ELSE LET f == EraStartDateFields[i]
             c == IntCmp(x[f], y[f])
         IN  IF c # "Equal" THEN c ELSE DeriveCmpFrom(x, y, i + 1)

YearOnlyCmp(x, y) == IntCmp(x.year, y.year)
DateCmp(x, y) == DeriveCmpFrom(x, y, 1)

\* derive(PartialEq, Eq): all fields are equal.
DateEq(x, y) == \A i \in 1 .. Len(EraStartDateFields) :
                    x[EraStartDateFields[i]] = y[EraStartDateFields[i]]

-----------------------------------------------------------------------------
(* The fixed-width record form of EraStartDate (EraStartDateULE).          *)

ByteBase == 256

\* The unaligned form of an unsigned integer: n bytes, least significant first.
RECURSIVE ToLeBytes(_, _)
ToLeBytes(u, n) ==
    IF n = 0 THEN <<>> ELSE <<u % ByteBase>> \o ToLeBytes(u \div ByteBase, n - 1)

RECURSIVE FromLeBytes(_)
FromLeBytes(bs) ==
    IF bs = <<>> THEN 0 ELSE bs[1] + ByteBase * FromLeBytes(Tail(bs))

SignBit == Pow2(U8Bits - 1)

\* i32 <-> its 4 bytes (two's complement: a negative value is its distance
\* from the minimum, with the top bit of the last byte set).
I32ToUnaligned(x) ==
    LET n == I32Bits \div U8Bits
        low == ToLeBytes(IF x >= 0 THEN x ELSE x - MinI32, n)
    IN  IF x >= 0 THEN low ELSE [low EXCEPT ![n] = @ + SignBit]
I32FromUnaligned(bs) ==
    LET n == Len(bs)
    IN  IF bs[n] >= SignBit
        THEN FromLeBytes([bs EXCEPT ![n] = @ - SignBit]) + MinI32
        ELSE FromLeBytes(bs)

U8ToUnaligned(x) == <<x>>
U8FromUnaligned(bs) == bs[1]

\* Width in bytes of each field's unaligned form.
FieldWidth(f) == IF f = "year" THEN I32Bits \div U8Bits ELSE 1

FieldToUnaligned(f, v) ==
    IF f = "year" THEN I32ToUnaligned(v) ELSE U8ToUnaligned(v)
FieldFromUnaligned(f, bs) ==
    IF f = "year" THEN I32FromUnaligned(bs) ELSE U8FromUnaligned(bs)

\* Offset (0-based) of field i in the packed record.
RECURSIVE FieldOffset(_)
FieldOffset(i) ==
    IF i = 1 THEN 0
    ELSE FieldOffset(i - 1) + FieldWidth(EraStartDateFields[i - 1])

EraStartDateWidth ==
    FieldOffset(Len(EraStartDateFields))
        + FieldWidth(EraStartDateFields[Len(EraStartDateFields)])

\* to_unaligned: the fields' unaligned forms, packed in declaration order.
RECURSIVE PackFrom(_, _)
PackFrom(x, i) ==
    IF i > Len(EraStartDateFields) THEN <<>>
    ELSE FieldToUnaligned(EraStartDateFields[i], x[EraStartDateFields[i]])
             \o PackFrom(x, i + 1)

NarrowYearToUnaligned(x) ==
    SubSeq(I32ToUnaligned(x.year), 1, 2) \o <<0, 0>>
        \o U8ToUnaligned(x.month) \o U8ToUnaligned(x.day)
ToUnaligned(x) == PackFrom(x, 1)

FieldBytes(bs, i) ==
    SubSeq(bs, FieldOffset(i) + 1,
           FieldOffset(i) + FieldWidth(EraStartDateFields[i]))

\* from_unaligned: each field read back from its byte range.
FromUnaligned(bs) ==
    [f \in {"year", "month", "day"} |->
        LET i == CHOOSE j \in 1 .. Len(EraStartDateFields) :
                     EraStartDateFields[j] = f
        IN  FieldFromUnaligned(f, FieldBytes(bs, i))]

-----------------------------------------------------------------------------
(* The date operations as a state machine: two dates are drawn, then        *)
(* compared, and the first one is written to bytes and read back.           *)

Compare ==
    /\ dateOp = "init"
    /\ cmpResult' = [ord |-> DateCmp(a, b), eq |-> DateEq(a, b)]
    /\ dateOp' = "cmp"
    /\ UNCHANGED <<a, b, bytes, decoded, eraVars, parseVars, mapVars, walkVars, ctorVars,
                   seqVars>>

Encode ==
    /\ dateOp \in {"init", "cmp"}
    /\ bytes' = ToUnaligned(a)
    /\ dateOp' = "encoded"
    /\ UNCHANGED <<a, b, cmpResult, decoded, eraVars, parseVars, mapVars, walkVars, ctorVars,
                   seqVars>>

Decode ==
    /\ dateOp = "encoded"
    /\ decoded' = FromUnaligned(bytes)
    /\ dateOp' = "decoded"
    /\ UNCHANGED <<a, b, cmpResult, bytes, eraVars, parseVars, mapVars, walkVars, ctorVars,
                   seqVars>>

DateNext == Compare \/ Encode \/ Decode


-----------------------------------------------------------------------------
(* The era table (JapaneseErasV1.dates_to_eras) and the lookup of the era  *)
(* that covers a date.                                                     *)

MaxEras == 3

EraCodes == <<"meiji", "taisho", "showa", "heisei", "reiwa", "next">>

EraYears == {-1, 1}
EraDates == [year : EraYears, month : Months, day : Days]

\* dates_to_eras: pairs (start date, era code), kept sorted by start date
\* with no start date twice.
StartLists ==
    {s \in UNION {[1 .. n -> EraDates] : n \in 0 .. MaxEras} :
        \A i \in 1 .. (Len(s) - 1) :
            \/ s[i].year < s[i + 1].year
            \/ s[i].year = s[i + 1].year /\ s[i].month < s[i + 1].month
            \/ /\ s[i].year = s[i + 1].year /\ s[i].month = s[i + 1].month
               /\ s[i].day < s[i + 1].day}

EraTable(starts) ==
    [i \in 1 .. Len(starts) |-> [start |-> starts[i], code |-> EraCodes[i]]]

Ok(v) == [tag |-> "Ok", val |-> v]
Err(v) == [tag |-> "Err", val |-> v]

\* binary_search_by over a sequence of n elements (indices 0 .. n-1);
\* cmpAt(i) compares element i with the key. Ok(i) on a match, otherwise
\* Err(insertion point).
RECURSIVE SearchLoop(_, _, _, _)
SearchLoop(cmpAt, left, right, size) ==
    IF left >= right THEN Err(left)
    ELSE LET mid == left + (size \div 2)
             c == cmpAt[mid]
         IN  IF c = "Less" THEN SearchLoop(cmpAt, mid + 1, right, right - (mid + 1))
             ELSE IF c = "Greater" THEN SearchLoop(cmpAt, left, mid, mid - left)
             ELSE Ok(mid)

BinarySearchBy(cmpAt, n) == SearchLoop(cmpAt, 0, n, n)

NoEraCovers == "NoEraCovers"

\* resolve: the entry found, or the one before the insertion point.
Resolve(t, d) ==
    LET cmpAt == [i \in 0 .. (Len(t) - 1) |-> DateCmp(t[i + 1].start, d)]
        r == BinarySearchBy(cmpAt, Len(t))
    IN  IF r.tag = "Ok" THEN Ok(t[r.val + 1].code)
        ELSE IF r.val = 0 THEN Err(NoEraCovers)
        ELSE Ok(t[r.val].code)

ResolveEra ==
    /\ eraOp = "init"
    /\ resolved' = Resolve(table, query)
    /\ eraOp' = "resolved"
    /\ UNCHANGED <<table, query, dateVars, parseVars, mapVars, walkVars, ctorVars,
                   seqVars>>

EraNext == ResolveEra

-----------------------------------------------------------------------------
(* Text: a string is the sequence of its characters.                       *)

DigitChars == <<"0", "1", "2", "3", "4", "5", "6", "7", "8", "9">>
Radix == 10

IsDigit(c) == \E i \in 1 .. Radix : DigitChars[i] = c
DigitVal(c) == (CHOOSE i \in 1 .. Radix : DigitChars[i] = c) - 1

\* The decimal digits of n >= 0, as the inputs are written.
RECURSIVE Dec(_)
Dec(n) ==
    IF n < Radix THEN <<DigitChars[n + 1]>>
    ELSE Dec(n \div Radix) \o <<DigitChars[(n % Radix) + 1]>>

\* s.strip_prefix(c): the rest of s after a leading c, if there is one.
StripPrefix(s, c) == IF s # <<>> /\ s[1] = c THEN Ok(Tail(s)) ELSE Err(None)

\* s.split(c): the pieces of s between the occurrences of c; always at least
\* one piece, empty pieces included.
RECURSIVE SplitFrom(_, _, _)
SplitFrom(s, c, piece) ==
    IF s = <<>> THEN <<piece>>
    ELSE IF s[1] = c THEN <<piece>> \o SplitFrom(Tail(s), c, <<>>)
    ELSE SplitFrom(Tail(s), c, Append(piece, s[1]))

Split(s, c) == SplitFrom(s, c, <<>>)

\* x / 10 rounded towards zero is the least value whose tenfold is >= x, for
\* x <= 0.
CeilDiv(x, d) == (x \div d) + (IF x % d = 0 THEN 0 ELSE 1)

\* The digit loop of the integer parser: checked multiply by the radix, then
\* checked add (or subtract, for a negative number) of the digit.
RECURSIVE Accumulate(_, _, _, _, _)
Accumulate(digits, acc, positive, min, max) ==
    IF digits = <<>> THEN Ok(acc)
    ELSE IF ~IsDigit(digits[1]) THEN Err("InvalidDigit")
    ELSE LET d == DigitVal(digits[1])
         IN  IF positive
             THEN IF acc > max \div Radix THEN Err("PosOverflow")
                  ELSE IF acc * Radix > max - d THEN Err("PosOverflow")
                  ELSE Accumulate(Tail(digits), acc * Radix + d, positive, min, max)
             ELSE IF acc < CeilDiv(min, Radix) THEN Err("NegOverflow")
                  ELSE IF acc * Radix < min + d THEN Err("NegOverflow")
                  ELSE Accumulate(Tail(digits), acc * Radix - d, positive, min, max)

\* str::parse for an integer type with the range min .. max: an optional
\* sign ('-' only for a signed type), then at least one digit.
ParseInt(s, signed, min, max) ==
    IF s = <<>> THEN Err("Empty")
    ELSE IF Len(s) = 1 /\ s[1] \in {"+", "-"} THEN Err("InvalidDigit")
    ELSE IF s[1] = "+" THEN Accumulate(Tail(s), 0, TRUE, min, max)
    ELSE IF s[1] = "-" /\ signed THEN Accumulate(Tail(s), 0, FALSE, min, max)
    ELSE Accumulate(s, 0, TRUE, min, max)

NarrowParseI32(s) == ParseInt(s, TRUE, MinI32, MaxI32 - 1)
ParseI32(s) == ParseInt(s, TRUE, MinI32, MaxI32)
ParseU8(s) == ParseInt(s, FALSE, 0, MaxU8)

\* i32 multiplication by the sign: the product, or an overflow (a panic or a
\* wrapped value, depending on the build) when it does not fit.
MulSign(v, sign) ==
    IF sign = -1 /\ v = MinI32 THEN Err("Overflow") ELSE Ok(v * sign)

\* A date whose year is the product, or the overflow in its place.
DateOrOverflow(year, m, d) ==
    IF year.tag = "Ok" THEN Ok(EraStartDate(year.val, m, d))
    ELSE [tag |-> "Overflow", val |-> None]

UnitErr == "()"

\* from_str with a missing day read as day 1.
LenientFromStr(s0) ==
    LET stripped == StripPrefix(s0, "-")
        sign == IF stripped.tag = "Ok" THEN -1 ELSE 1
        s == IF stripped.tag = "Ok" THEN stripped.val ELSE s0
        split == Split(s, "-")
        year == ParseI32(split[1])
    IN  IF year.tag = "Err" \/ Len(split) < 2 THEN Err(UnitErr)
        ELSE LET month == ParseU8(split[2])
                 day == IF Len(split) < 3 THEN Ok(1) ELSE ParseU8(split[3])
             IN  IF month.tag = "Err" \/ day.tag = "Err" THEN Err(UnitErr)
                 ELSE DateOrOverflow(MulSign(year.val, sign), month.val, day.val)

\* EraStartDate::from_str
FromStr(s0) ==
    LET stripped == StripPrefix(s0, "-")
        sign == IF stripped.tag = "Ok" THEN -1 ELSE 1
        s == IF stripped.tag = "Ok" THEN stripped.val ELSE s0
        split == Split(s, "-")
        year == ParseI32(split[1])
    IN  IF year.tag = "Err" THEN Err(UnitErr)
        ELSE IF Len(split) < 2 THEN Err(UnitErr)
        ELSE LET month == ParseU8(split[2])
             IN  IF month.tag = "Err" THEN Err(UnitErr)
                 ELSE IF Len(split) < 3 THEN Err(UnitErr)
                 ELSE LET day == ParseU8(split[3])
                      IN  IF day.tag = "Err" THEN Err(UnitErr)
                          ELSE DateOrOverflow(MulSign(year.val, sign),
                                              month.val, day.val)

-----------------------------------------------------------------------------
(* The strings handed to from_str.                                         *)

MaxFields == 4

YearMagnitudes == {0, 5, 100, 2000, MaxI32}
FieldValues == {0, 1, 12, 13, 31, 32, 255, 256}

\* Fields that are no number, or no number of the field's type.
OddFields ==
    { <<>>, <<"x", "x">>, <<"a", "b", "c">>, <<"+", "1">>, <<"0", "1">>, <<"+">> }
YearFields ==
    {Dec(y) : y \in YearMagnitudes} \cup OddFields
        \cup { <<"2", "1", "4", "7", "4", "8", "3", "6", "4", "8">>,
               <<"0", "0", "1", "0", "0">> }
SmallFields == {Dec(v) : v \in FieldValues} \cup OddFields
ExtraFields == { <<>>, <<"5">> }

FieldPool(i) ==
    IF i = 1 THEN YearFields ELSE IF i <= 3 THEN SmallFields ELSE ExtraFields

FieldLists ==
    UNION {{fs \in [1 .. n -> YearFields \cup SmallFields \cup ExtraFields] :
               \A i \in 1 .. n : fs[i] \in FieldPool(i)} : n \in 1 .. MaxFields}

RECURSIVE Join(_)
Join(fs) ==
    IF Len(fs) = 1 THEN fs[1] ELSE fs[1] \o <<"-">> \o Join(Tail(fs))

\* "abc", "2000-01", "2000-xx-01", "", "--5-01-01", "-100-01-01"
ExampleInputs ==
    { <<"a", "b", "c">>,
      <<"2", "0", "0", "0", "-", "0", "1">>,
      <<"2", "0", "0", "0", "-", "x", "x", "-", "0", "1">>,
      <<>>,
      <<"-", "-", "5", "-", "0", "1", "-", "0", "1">>,
      <<"-", "1", "0", "0", "-", "0", "1", "-", "0", "1">> }

Inputs ==
    {Join(fs) : fs \in FieldLists} \cup {<<"-">> \o Join(fs) : fs \in FieldLists}
        \cup ExampleInputs

Parse ==
    /\ parseOp = "init"
    /\ parsed' = FromStr(input)
    /\ parseOp' = "parsed"
    /\ UNCHANGED <<input, dateVars, eraVars, mapVars, walkVars, ctorVars, seqVars>>

ParseNext == Parse

-----------------------------------------------------------------------------
(* The baked fallback parents map: the two byte buffers handed to          *)
(* ZeroMap::from_parts_unchecked.                                          *)

\* The bytes given to VarZeroVec::from_bytes_unchecked (the keys).
BakedKeyBytes ==
    <<
       130, 0, 0, 0, 0, 0, 6, 0, 11, 0, 16, 0, 21, 0, 26, 0, 31, 0, 36, 0,
       41, 0, 46, 0, 51, 0, 56, 0, 61, 0, 66, 0, 71, 0, 76, 0, 81, 0, 86, 0,
       91, 0, 96, 0, 101, 0, 106, 0, 111, 0, 116, 0, 121, 0, 126, 0, 131, 0, 136, 0,
       141, 0, 146, 0, 151, 0, 156, 0, 161, 0, 166, 0, 171, 0, 176, 0, 181, 0, 186, 0,
       191, 0, 196, 0, 201, 0, 206, 0, 211, 0, 216, 0, 221, 0, 226, 0, 231, 0, 236, 0,
       241, 0, 246, 0, 251, 0, 0, 1, 5, 1, 10, 1, 15, 1, 20, 1, 25, 1, 30, 1,
       35, 1, 40, 1, 45, 1, 50, 1, 55, 1, 60, 1, 65, 1, 70, 1, 75, 1, 80, 1,
       85, 1, 90, 1, 95, 1, 100, 1, 105, 1, 110, 1, 115, 1, 120, 1, 125, 1, 130, 1,
       135, 1, 140, 1, 145, 1, 150, 1, 155, 1, 160, 1, 165, 1, 170, 1, 175, 1, 180, 1,
       185, 1, 190, 1, 195, 1, 200, 1, 205, 1, 210, 1, 215, 1, 220, 1, 225, 1, 230, 1,
       235, 1, 240, 1, 245, 1, 250, 1, 255, 1, 4, 2, 9, 2, 14, 2, 19, 2, 24, 2,
       29, 2, 34, 2, 39, 2, 44, 2, 49, 2, 54, 2, 59, 2, 64, 2, 71, 2, 73, 2,
       75, 2, 80, 2, 85, 2, 90, 2, 95, 2, 100, 2, 105, 2, 110, 2, 115, 2, 120, 2,
       125, 2, 130, 2, 101, 110, 45, 49, 53, 48, 101, 110, 45, 65, 71, 101, 110, 45, 65, 73,
       101, 110, 45, 65, 84, 101, 110, 45, 65, 85, 101, 110, 45, 66, 66, 101, 110, 45, 66, 69,
       101, 110, 45, 66, 77, 101, 110, 45, 66, 83, 101, 110, 45, 66, 87, 101, 110, 45, 66, 90,
       101, 110, 45, 67, 67, 101, 110, 45, 67, 72, 101, 110, 45, 67, 75, 101, 110, 45, 67, 77,
       101, 110, 45, 67, 88, 101, 110, 45, 67, 89, 101, 110, 45, 68, 69, 101, 110, 45, 68, 71,
       101, 110, 45, 68, 75, 101, 110, 45, 68, 77, 101, 110, 45, 69, 82, 101, 110, 45, 70, 73,
       101, 110, 45, 70, 74, 101, 110, 45, 70, 75, 101, 110, 45, 70, 77, 101, 110, 45, 71, 66,
       101, 110, 45, 71, 68, 101, 110, 45, 71, 71, 101, 110, 45, 71, 72, 101, 110, 45, 71, 73,
       101, 110, 45, 71, 77, 101, 110, 45, 71, 89, 101, 110, 45, 72, 75, 101, 110, 45, 73, 69,
       101, 110, 45, 73, 76, 101, 110, 45, 73, 77, 101, 110, 45, 73, 78, 101, 110, 45, 73, 79,
       101, 110, 45, 74, 69, 101, 110, 45, 74, 77, 101, 110, 45, 75, 69, 101, 110, 45, 75, 73,
       101, 110, 45, 75, 78, 101, 110, 45, 75, 89, 101, 110, 45, 76, 67, 101, 110, 45, 76, 82,
       101, 110, 45, 76, 83, 101, 110, 45, 77, 71, 101, 110, 45, 77, 79, 101, 110, 45, 77, 83,
       101, 110, 45, 77, 84, 101, 110, 45, 77, 85, 101, 110, 45, 77, 86, 101, 110, 45, 77, 87,
       101, 110, 45, 77, 89, 101, 110, 45, 78, 65, 101, 110, 45, 78, 70, 101, 110, 45, 78, 71,
       101, 110, 45, 78, 76, 101, 110, 45, 78, 82, 101, 110, 45, 78, 85, 101, 110, 45, 78, 90,
       101, 110, 45, 80, 71, 101, 110, 45, 80, 75, 101, 110, 45, 80, 78, 101, 110, 45, 80, 87,
       101, 110, 45, 82, 87, 101, 110, 45, 83, 66, 101, 110, 45, 83, 67, 101, 110, 45, 83, 68,
       101, 110, 45, 83, 69, 101, 110, 45, 83, 71, 101, 110, 45, 83, 72, 101, 110, 45, 83, 73,
       101, 110, 45, 83, 76, 101, 110, 45, 83, 83, 101, 110, 45, 83, 88, 101, 110, 45, 83, 90,
       101, 110, 45, 84, 67, 101, 110, 45, 84, 75, 101, 110, 45, 84, 79, 101, 110, 45, 84, 84,
       101, 110, 45, 84, 86, 101, 110, 45, 84, 90, 101, 110, 45, 85, 71, 101, 110, 45, 86, 67,
       101, 110, 45, 86, 71, 101, 110, 45, 86, 85, 101, 110, 45, 87, 83, 101, 110, 45, 90, 65,
       101, 110, 45, 90, 77, 101, 110, 45, 90, 87, 101, 115, 45, 65, 82, 101, 115, 45, 66, 79,
       101, 115, 45, 66, 82, 101, 115, 45, 66, 90, 101, 115, 45, 67, 76, 101, 115, 45, 67, 79,
       101, 115, 45, 67, 82, 101, 115, 45, 67, 85, 101, 115, 45, 68, 79, 101, 115, 45, 69, 67,
       101, 115, 45, 71, 84, 101, 115, 45, 72, 78, 101, 115, 45, 77, 88, 101, 115, 45, 78, 73,
       101, 115, 45, 80, 65, 101, 115, 45, 80, 69, 101, 115, 45, 80, 82, 101, 115, 45, 80, 89,
       101, 115, 45, 83, 86, 101, 115, 45, 85, 83, 101, 115, 45, 85, 89, 101, 115, 45, 86, 69,
       104, 105, 45, 76, 97, 116, 110, 110, 98, 110, 110, 112, 116, 45, 65, 79, 112, 116, 45, 67,
       72, 112, 116, 45, 67, 86, 112, 116, 45, 70, 82, 112, 116, 45, 71, 81, 112, 116, 45, 71,
       87, 112, 116, 45, 76, 85, 112, 116, 45, 77, 79, 112, 116, 45, 77, 90, 112, 116, 45, 83,
       84, 112, 116, 45, 84, 76, 122, 104, 45, 72, 97, 110, 116, 45, 77, 79
    >>

\* The bytes given to ZeroVec::from_bytes_unchecked (the values).
BakedValueBytes ==
    <<
       101, 110, 0, 0, 0, 0, 0, 0, 1, 48, 48, 49, 101, 110, 0, 0, 0, 0, 0, 0,
       1, 48, 48, 49, 101, 110, 0, 0, 0, 0, 0, 0, 1, 48, 48, 49, 101, 110, 0, 0,
       0, 0, 0, 0, 1, 49, 53, 48, 101, 110, 0, 0, 0, 0, 0, 0, 1, 48, 48, 49,
       101, 110, 0, 0, 0, 0, 0, 0, 1, 48, 48, 49, 101, 110, 0, 0, 0, 0, 0, 0,
       1, 49, 53, 48, 101, 110, 0, 0, 0, 0, 0, 0, 1, 48, 48, 49, 101, 110, 0, 0,
       0, 0, 0, 0, 1, 48, 48, 49, 101, 110, 0, 0, 0, 0, 0, 0, 1, 48, 48, 49,
       101, 110, 0, 0, 0, 0, 0, 0, 1, 48, 48, 49, 101, 110, 0, 0, 0, 0, 0, 0,
       1, 48, 48, 49, 101, 110, 0, 0, 0, 0, 0, 0, 1, 49, 53, 48, 101, 110, 0, 0,
       0, 0, 0, 0, 1, 48, 48, 49, 101, 110, 0, 0, 0, 0, 0, 0, 1, 48, 48, 49,
       101, 110, 0, 0, 0, 0, 0, 0, 1, 48, 48, 49, 101, 110, 0, 0, 0, 0, 0, 0,
       1, 48, 48, 49, 101, 110, 0, 0, 0, 0, 0, 0, 1, 49, 53, 48, 101, 110, 0, 0,
       0, 0, 0, 0, 1, 48, 48, 49, 101, 110, 0, 0, 0, 0, 0, 0, 1, 49, 53, 48,
       101, 110, 0, 0, 0, 0, 0, 0, 1, 48, 48, 49, 101, 110, 0, 0, 0, 0, 0, 0,
       1, 48, 48, 49, 101, 110, 0, 0, 0, 0, 0, 0, 1, 49, 53, 48, 101, 110, 0, 0,
       0, 0, 0, 0, 1, 48, 48, 49, 101, 110, 0, 0, 0, 0, 0, 0, 1, 48, 48, 49,
       101, 110, 0, 0, 0, 0, 0, 0, 1, 48, 48, 49, 101, 110, 0, 0, 0, 0, 0, 0,
       1, 48, 48, 49, 101, 110, 0, 0, 0, 0, 0, 0, 1, 48, 48, 49, 101, 110, 0, 0,
       0, 0, 0, 0, 1, 48, 48, 49, 101, 110, 0, 0, 0, 0, 0, 0, 1, 48, 48, 49,
       101, 110, 0, 0, 0, 0, 0, 0, 1, 48, 48, 49, 101, 110, 0, 0, 0, 0, 0, 0,
       1, 48, 48, 49, 101, 110, 0, 0, 0, 0, 0, 0, 1, 48, 48, 49, 101, 110, 0, 0,
       0, 0, 0, 0, 1, 48, 48, 49, 101, 110, 0, 0, 0, 0, 0, 0, 1, 48, 48, 49,
       101, 110, 0, 0, 0, 0, 0, 0, 1, 48, 48, 49, 101, 110, 0, 0, 0, 0, 0, 0,
       1, 48, 48, 49, 101, 110, 0, 0, 0, 0, 0, 0, 1, 48, 48, 49, 101, 110, 0, 0,
       0, 0, 0, 0, 1, 48, 48, 49, 101, 110, 0, 0, 0, 0, 0, 0, 1, 48, 48, 49,
       101, 110, 0, 0, 0, 0, 0, 0, 1, 48, 48, 49, 101, 110, 0, 0, 0, 0, 0, 0,
       1, 48, 48, 49, 101, 110, 0, 0, 0, 0, 0, 0, 1, 48, 48, 49, 101, 110, 0, 0,
       0, 0, 0, 0, 1, 48, 48, 49, 101, 110, 0, 0, 0, 0, 0, 0, 1, 48, 48, 49,
       101, 110, 0, 0, 0, 0, 0, 0, 1, 48, 48, 49, 101, 110, 0, 0, 0, 0, 0, 0,
       1, 48, 48, 49, 101, 110, 0, 0, 0, 0, 0, 0, 1, 48, 48, 49, 101, 110, 0, 0,
       0, 0, 0, 0, 1, 48, 48, 49, 101, 110, 0, 0, 0, 0, 0, 0, 1, 48, 48, 49,
       101, 110, 0, 0, 0, 0, 0, 0, 1, 48, 48, 49, 101, 110, 0, 0, 0, 0, 0, 0,
       1, 48, 48, 49, 101, 110, 0, 0, 0, 0, 0, 0, 1, 48, 48, 49, 101, 110, 0, 0,
       0, 0, 0, 0, 1, 48, 48, 49, 101, 110, 0, 0, 0, 0, 0, 0, 1, 48, 48, 49,
       101, 110, 0, 0, 0, 0, 0, 0, 1, 48, 48, 49, 101, 110, 0, 0, 0, 0, 0, 0,
       1, 48, 48, 49, 101, 110, 0, 0, 0, 0, 0, 0, 1, 48, 48, 49, 101, 110, 0, 0,
       0, 0, 0, 0, 1, 48, 48, 49, 101, 110, 0, 0, 0, 0, 0, 0, 1, 49, 53, 48,
       101, 110, 0, 0, 0, 0, 0, 0, 1, 48, 48, 49, 101, 110, 0, 0, 0, 0, 0, 0,
       1, 48, 48, 49, 101, 110, 0, 0, 0, 0, 0, 0, 1, 48, 48, 49, 101, 110, 0, 0,
       0, 0, 0, 0, 1, 48, 48, 49, 101, 110, 0, 0, 0, 0, 0, 0, 1, 48, 48, 49,
       101, 110, 0, 0, 0, 0, 0, 0, 1, 48, 48, 49, 101, 110, 0, 0, 0, 0, 0, 0,
       1, 48, 48, 49, 101, 110, 0, 0, 0, 0, 0, 0, 1, 48, 48, 49, 101, 110, 0, 0,
       0, 0, 0, 0, 1, 48, 48, 49, 101, 110, 0, 0, 0, 0, 0, 0, 1, 48, 48, 49,
       101, 110, 0, 0, 0, 0, 0, 0, 1, 48, 48, 49, 101, 110, 0, 0, 0, 0, 0, 0,
       1, 49, 53, 48, 101, 110, 0, 0, 0, 0, 0, 0, 1, 48, 48, 49, 101, 110, 0, 0,
       0, 0, 0, 0, 1, 48, 48, 49, 101, 110, 0, 0, 0, 0, 0, 0, 1, 49, 53, 48,
       101, 110, 0, 0, 0, 0, 0, 0, 1, 48, 48, 49, 101, 110, 0, 0, 0, 0, 0, 0,
       1, 48, 48, 49, 101, 110, 0, 0, 0, 0, 0, 0, 1, 48, 48, 49, 101, 110, 0, 0,
       0, 0, 0, 0, 1, 48, 48, 49, 101, 110, 0, 0, 0, 0, 0, 0, 1, 48, 48, 49,
       101, 110, 0, 0, 0, 0, 0, 0, 1, 48, 48, 49, 101, 110, 0, 0, 0, 0, 0, 0,
       1, 48, 48, 49, 101, 110, 0, 0, 0, 0, 0, 0, 1, 48, 48, 49, 101, 110, 0, 0,
       0, 0, 0, 0, 1, 48, 48, 49, 101, 110, 0, 0, 0, 0, 0, 0, 1, 48, 48, 49,
       101, 110, 0, 0, 0, 0, 0, 0, 1, 48, 48, 49, 101, 110, 0, 0, 0, 0, 0, 0,
       1, 48, 48, 49, 101, 110, 0, 0, 0, 0, 0, 0, 1, 48, 48, 49, 101, 110, 0, 0,
       0, 0, 0, 0, 1, 48, 48, 49, 101, 110, 0, 0, 0, 0, 0, 0, 1, 48, 48, 49,
       101, 110, 0, 0, 0, 0, 0, 0, 1, 48, 48, 49, 101, 110, 0, 0, 0, 0, 0, 0,
       1, 48, 48, 49, 101, 110, 0, 0, 0, 0, 0, 0, 1, 48, 48, 49, 101, 115, 0, 0,
       0, 0, 0, 0, 1, 52, 49, 57, 101, 115, 0, 0, 0, 0, 0, 0, 1, 52, 49, 57,
       101, 115, 0, 0, 0, 0, 0, 0, 1, 52, 49, 57, 101, 115, 0, 0, 0, 0, 0, 0,
       1, 52, 49, 57, 101, 115, 0, 0, 0, 0, 0, 0, 1, 52, 49, 57, 101, 115, 0, 0,
       0, 0, 0, 0, 1, 52, 49, 57, 101, 115, 0, 0, 0, 0, 0, 0, 1, 52, 49, 57,
       101, 115, 0, 0, 0, 0, 0, 0, 1, 52, 49, 57, 101, 115, 0, 0, 0, 0, 0, 0,
       1, 52, 49, 57, 101, 115, 0, 0, 0, 0, 0, 0, 1, 52, 49, 57, 101, 115, 0, 0,
       0, 0, 0, 0, 1, 52, 49, 57, 101, 115, 0, 0, 0, 0, 0, 0, 1, 52, 49, 57,
       101, 115, 0, 0, 0, 0, 0, 0, 1, 52, 49, 57, 101, 115, 0, 0, 0, 0, 0, 0,
       1, 52, 49, 57, 101, 115, 0, 0, 0, 0, 0, 0, 1, 52, 49, 57, 101, 115, 0, 0,
       0, 0, 0, 0, 1, 52, 49, 57, 101, 115, 0, 0, 0, 0, 0, 0, 1, 52, 49, 57,
       101, 115, 0, 0, 0, 0, 0, 0, 1, 52, 49, 57, 101, 115, 0, 0, 0, 0, 0, 0,
       1, 52, 49, 57, 101, 115, 0, 0, 0, 0, 0, 0, 1, 52, 49, 57, 101, 115, 0, 0,
       0, 0, 0, 0, 1, 52, 49, 57, 101, 115, 0, 0, 0, 0, 0, 0, 1, 52, 49, 57,
       101, 110, 0, 0, 0, 0, 0, 0, 1, 73, 78, 0, 110, 111, 0, 0, 0, 0, 0, 0,
       0, 0, 0, 0, 110, 111, 0, 0, 0, 0, 0, 0, 0, 0, 0, 0, 112, 116, 0, 0,
       0, 0, 0, 0, 1, 80, 84, 0, 112, 116, 0, 0, 0, 0, 0, 0, 1, 80, 84, 0,
       112, 116, 0, 0, 0, 0, 0, 0, 1, 80, 84, 0, 112, 116, 0, 0, 0, 0, 0, 0,
       1, 80, 84, 0, 112, 116, 0, 0, 0, 0, 0, 0, 1, 80, 84, 0, 112, 116, 0, 0,
       0, 0, 0, 0, 1, 80, 84, 0, 112, 116, 0, 0, 0, 0, 0, 0, 1, 80, 84, 0,
       112, 116, 0, 0, 0, 0, 0, 0, 1, 80, 84, 0, 112, 116, 0, 0, 0, 0, 0, 0,
       1, 80, 84, 0, 112, 116, 0, 0, 0, 0, 0, 0, 1, 80, 84, 0, 112, 116, 0, 0,
       0, 0, 0, 0, 1, 80, 84, 0, 122, 104, 0, 1, 72, 97, 110, 116, 1, 72, 75, 0
    >>

\* The key bytes with the keys "en-AG" and "en-AI" in each other's place.
SwappedKeyBytes ==
    [i \in 1 .. Len(BakedKeyBytes) |->
        IF i = 275 THEN 73 ELSE IF i = 280 THEN 71 ELSE BakedKeyBytes[i]]
\* The key bytes with the third key, "en-AI", turned into a second "en-AG".
DuplicateKeyBytes ==
    [i \in 1 .. Len(BakedKeyBytes) |-> IF i = 280 THEN 71 ELSE BakedKeyBytes[i]]
ParentsKeyBytes == BakedKeyBytes

\* The value bytes with the parent of "en-150" (the first record) changed
\* from "en-001" to "en-AT", whose own parent is "en-150".
CyclicValueBytes ==
    [i \in 1 .. Len(BakedValueBytes) |->
        IF i = 10 THEN 65 ELSE IF i = 11 THEN 84 ELSE IF i = 12 THEN 0
        ELSE BakedValueBytes[i]]
ParentsValueBytes == BakedValueBytes

-----------------------------------------------------------------------------
(* Reading the buffers.                                                    *)

\* The key buffer: a 4-byte count n, then n 2-byte indices into the data
\* that follows, all least significant byte first.
LenWidth == 4
WideIndexWidth == LenWidth
IndexWidth == 2

VzvLen(buf) == FromLeBytes(SubSeq(buf, 1, LenWidth))
VzvDataStart(buf) == LenWidth + IndexWidth * VzvLen(buf)
VzvIndex(buf, i) ==
    FromLeBytes(SubSeq(buf, LenWidth + IndexWidth * i + 1,
                       LenWidth + IndexWidth * (i + 1)))
\* Element i (from 0): the data from its index up to the next index, or up to
\* the end of the buffer for the last one.
VzvGet(buf, i) ==
    LET from == VzvDataStart(buf) + VzvIndex(buf, i)
        to == IF i + 1 < VzvLen(buf)
              THEN VzvDataStart(buf) + VzvIndex(buf, i + 1)
              ELSE Len(buf)
    IN  SubSeq(buf, from + 1, to)

\* The value buffer: records of 12 bytes, a language (3 bytes), an optional
\* script (a flag byte and 4 bytes) and an optional region (a flag byte and
\* 3 bytes); short subtags are padded with zero bytes.
LanguageWidth == 3
ScriptWidth == 4
RegionWidth == 3
RecordWidth == LanguageWidth + (1 + ScriptWidth) + (1 + RegionWidth)

Some(v) == [tag |-> "Some", val |-> v]
Nothing == [tag |-> "None"]

ZvLen(buf) == Len(buf) \div RecordWidth
ZvGet(buf, i) ==
    IF i < ZvLen(buf)
    THEN Some(SubSeq(buf, RecordWidth * i + 1, RecordWidth * (i + 1)))
    ELSE Nothing

\* Ord for str: byte by byte, a proper prefix first.
RECURSIVE BytesCmp(_, _)
BytesCmp(x, y) ==
    IF x = <<>> THEN (IF y = <<>> THEN "Equal" ELSE "Less")
    ELSE IF y = <<>> THEN "Greater"
    ELSE IF x[1] < y[1] THEN "Less"
    ELSE IF x[1] > y[1] THEN "Greater"
    ELSE BytesCmp(Tail(x), Tail(y))

\* A map is its two buffers.
ZeroMap(keys, values) == [keys |-> keys, values |-> values]

\* The keys of a key buffer, in stored order.
KeySeq(buf) == [i \in 1 .. VzvLen(buf) |-> VzvGet(buf, i - 1)]

\* The invariants of a map: as many keys as values, keys strictly ascending.
ValidParts(keys, values) ==
    /\ VzvLen(keys) = ZvLen(values)
    /\ \A i \in 1 .. (VzvLen(keys) - 1) :
          BytesCmp(KeySeq(keys)[i], KeySeq(keys)[i + 1]) = "Less"

\* ZeroMap::from_parts_unchecked (over VarZeroVec::from_bytes_unchecked and
\* ZeroVec::from_bytes_unchecked): the buffers are taken as they are.
FallbackToEmptyFromParts(keys, values) ==
    IF ValidParts(keys, values) THEN ZeroMap(keys, values)
    ELSE ZeroMap(ToLeBytes(0, LenWidth), <<>>)
FromPartsUnchecked(keys, values) == ZeroMap(keys, values)

InvalidLayout == "InvalidLayout"

\* The validating construction: the map, or InvalidLayout.
TryFromParts(keys, values) ==
    IF ValidParts(keys, values) THEN Ok(ZeroMap(keys, values))
    ELSE Err(InvalidLayout)

\* The baked map.
UND == FromPartsUnchecked(ParentsKeyBytes, ParentsValueBytes)

\* ZeroMap::get: binary search of the keys, then the value at the index found.
Get(m, k) ==
    LET n == VzvLen(m.keys)
        cmpAt == [i \in 0 .. (n - 1) |-> BytesCmp(VzvGet(m.keys, i), k)]
        r == BinarySearchBy(cmpAt, n)
    IN  IF r.tag = "Ok" THEN ZvGet(m.values, r.val) ELSE Nothing

-----------------------------------------------------------------------------
(* Locales: the value records and the keys they stand for.                 *)

Hyphen == 45

\* A subtag padded with zero bytes to its width, and back.
RECURSIVE Zeros(_)
Zeros(n) == IF n = 0 THEN <<>> ELSE <<0>> \o Zeros(n - 1)
Pad(f, w) == f \o Zeros(w - Len(f))
Unpad(bs) == SelectSeq(bs, LAMBDA x : x # 0)

Locale(l, s, r) == [language |-> l, script |-> s, region |-> r]

\* The 12-byte record of a locale; an absent subtag is an empty one.
OptionBytes(f, w) == IF f = <<>> THEN <<0>> \o Zeros(w) ELSE <<1>> \o Pad(f, w)
RecordOf(loc) ==
    Pad(loc.language, LanguageWidth) \o OptionBytes(loc.script, ScriptWidth)
        \o OptionBytes(loc.region, RegionWidth)

\* The locale a 12-byte record holds.
LocaleOf(rec) ==
    Locale(Unpad(SubSeq(rec, 1, LanguageWidth)),
           IF rec[LanguageWidth + 1] = 1
           THEN Unpad(SubSeq(rec, LanguageWidth + 2, LanguageWidth + 1 + ScriptWidth))
           ELSE <<>>,
           IF rec[LanguageWidth + ScriptWidth + 2] = 1
           THEN Unpad(SubSeq(rec, LanguageWidth + ScriptWidth + 3, RecordWidth))
           ELSE <<>>)

\* The key of a locale: language[-script][-region].
LocaleKey(loc) ==
    loc.language
        \o (IF loc.script = <<>> THEN <<>> ELSE <<Hyphen>> \o loc.script)
        \o (IF loc.region = <<>> THEN <<>> ELSE <<Hyphen>> \o loc.region)

\* The parent a map gives for a key, as a key.
GetParent(m, k) ==
    LET r == Get(m, k)
    IN  IF r.tag = "Some" THEN Some(LocaleKey(LocaleOf(r.val))) ELSE Nothing

-----------------------------------------------------------------------------
(* Writing buffers: how the small maps of the scenarios are laid out.      *)

RECURSIVE Concat(_)
Concat(ss) == IF ss = <<>> THEN <<>> ELSE ss[1] \o Concat(Tail(ss))

RECURSIVE IndexBytes(_, _)
IndexBytes(ks, at) ==
    IF ks = <<>> THEN <<>>
    ELSE ToLeBytes(at, IndexWidth) \o IndexBytes(Tail(ks), at + Len(ks[1]))

KeyBuffer(ks) == ToLeBytes(Len(ks), LenWidth) \o IndexBytes(ks, 0) \o Concat(ks)
ValueBuffer(locs) == Concat([i \in 1 .. Len(locs) |-> RecordOf(locs[i])])

MaxKeys == 2

\* "aa", "aa-XY", "ab", "ba"
LocalePool ==
    { Locale(<<97, 97>>, <<>>, <<>>), Locale(<<97, 97>>, <<>>, <<88, 89>>),
      Locale(<<97, 98>>, <<>>, <<>>), Locale(<<98, 97>>, <<>>, <<>>) }

Ascending(ks) ==
    \A i \in 1 .. (Len(ks) - 1) : BytesCmp(ks[i], ks[i + 1]) = "Less"

KeyLists(n) == {ks \in [1 .. n -> {LocaleKey(l) : l \in LocalePool}] : Ascending(ks)}

\* Every map of up to MaxKeys pool keys in ascending order, each with a pool
\* locale as its parent.
SmallMaps ==
    UNION {{ZeroMap(KeyBuffer(ks), ValueBuffer(ps)) :
               ks \in KeyLists(n), ps \in [1 .. n -> LocalePool]} : n \in 0 .. MaxKeys}

\* "en", "en-US", "zz", ""
AbsentKeys ==
    { <<101, 110>>, <<101, 110, 45, 85, 83>>, <<122, 122>>, <<>> }

KeysOf(m) == {VzvGet(m.keys, i) : i \in 0 .. (VzvLen(m.keys) - 1)}

\* The lookups tried: on the baked map, each of its keys and the absent ones;
\* on a small map, each pool key and the absent ones.
MapQueries ==
    {<<UND, k>> : k \in KeysOf(UND) \cup AbsentKeys}
        \cup (SmallMaps \X ({LocaleKey(l) : l \in LocalePool} \cup AbsentKeys))

Lookup ==
    /\ mapOp = "init"
    /\ got' = Get(fmap, key)
    /\ mapOp' = "got"
    /\ UNCHANGED <<fmap, key, dateVars, eraVars, parseVars, walkVars, ctorVars, seqVars>>

MapNext == Lookup

-----------------------------------------------------------------------------
(* The fallback chain walker.                                              *)

MaxSteps == 32

\* One step of the walk from the last locale yielded: the end when it has no
\* parent, the failure when one more link would exceed the step count, and
\* otherwise the parent is yielded.
TruncatingAdvance(m, c, n) ==
    LET r == GetParent(m, c[Len(c)])
    IN  IF r = Nothing \/ n = MaxSteps THEN [chain |-> c, steps |-> n, status |-> "done"]
        ELSE [chain |-> Append(c, r.val), steps |-> n + 1, status |-> "walking"]
Advance(m, c, n) ==
    LET r == GetParent(m, c[Len(c)])
    IN  IF r = Nothing THEN [chain |-> c, steps |-> n, status |-> "done"]
        ELSE IF n = MaxSteps
        THEN [chain |-> c, steps |-> n, status |-> "FallbackCycle"]
        ELSE [chain |-> Append(c, r.val), steps |-> n + 1, status |-> "walking"]

\* A map with one chain of MaxSteps + 1 links and no cycle: the two-letter
\* languages "aa", "ab", ... each with the next one as its parent.
Letters == 26
Lang(i) == <<97 + (i \div Letters), 97 + (i % Letters)>>
LongChainMap ==
    ZeroMap(KeyBuffer([i \in 1 .. (MaxSteps + 1) |-> Lang(i - 1)]),
            ValueBuffer([i \in 1 .. (MaxSteps + 1) |-> Locale(Lang(i), <<>>, <<>>)]))

\* The walks tried: on the baked map from each key and each absent key, on
\* each small map from each pool key and from an absent one, and on the long
\* chain from its first two keys.
Walks ==
    {<<UND, k>> : k \in KeysOf(UND) \cup AbsentKeys}
        \cup (SmallMaps \X ({LocaleKey(l) : l \in LocalePool} \cup {<<122, 122>>}))
        \cup {<<LongChainMap, Lang(0)>>, <<LongChainMap, Lang(1)>>}

WalkStep ==
    /\ status = "walking"
    /\ LET w == Advance(wmap, chain, steps)
       IN  /\ chain' = w.chain
           /\ steps' = w.steps
           /\ status' = w.status
    /\ UNCHANGED <<wmap, start, dateVars, eraVars, parseVars, mapVars, ctorVars,
                   seqVars>>

WalkNext == WalkStep

-----------------------------------------------------------------------------
(* Construction of a map from two buffers, checked or unchecked, and        *)
(* lookups on what was built.                                               *)

\* Key buffers of up to MaxKeys pool keys in any order, repeats included, and
\* value buffers of up to MaxKeys records.
AnyKeyLists == UNION {[1 .. n -> {LocaleKey(l) : l \in LocalePool}] : n \in 0 .. MaxKeys}
AnyValueLists ==
    UNION {[1 .. n -> {Locale(<<97, 97>>, <<>>, <<>>), Locale(<<97, 98>>, <<>>, <<>>)}] :
              n \in 0 .. MaxKeys}

PartsPool ==
    {[keys |-> KeyBuffer(ks), values |-> ValueBuffer(vs)] :
        ks \in AnyKeyLists, vs \in AnyValueLists}

LoadChecked ==
    /\ ctorOp = "init"
    /\ LET r == TryFromParts(parts.keys, parts.values)
       IN  IF r.tag = "Ok"
           THEN /\ built' = Some(r.val)
                /\ ctorErr' = None
                /\ ctorOp' = "checked"
           ELSE /\ built' = Nothing
                /\ ctorErr' = r.val
                /\ ctorOp' = "rejected"
    /\ UNCHANGED <<parts, probe, probed, dateVars, eraVars, parseVars, mapVars, walkVars,
                   seqVars>>

BuildUnchecked ==
    /\ ctorOp = "init"
    /\ built' = Some(FromPartsUnchecked(parts.keys, parts.values))
    /\ ctorOp' = "unchecked"
    /\ UNCHANGED <<parts, ctorErr, probe, probed, dateVars, eraVars, parseVars,
                   mapVars, walkVars, seqVars>>

\* get on the structure built; it answers Some or None and reports no error.
Access(k) ==
    /\ ctorOp \in {"checked", "unchecked"}
    /\ probed = Nothing
    /\ probe' = k
    /\ probed' = Some(Get(built.val, k))
    /\ UNCHANGED <<parts, built, ctorErr, ctorOp, dateVars, eraVars, parseVars,
                   mapVars, walkVars, seqVars>>

CtorNext ==
    \/ LoadChecked
    \/ BuildUnchecked
    \/ \E k \in {LocaleKey(l) : l \in LocalePool} : Access(k)

-----------------------------------------------------------------------------
(* A variable-length sequence on its own: entries are written into a       *)
(* buffer in the layout of the baked key buffer, and read back by index.   *)

MaxEntries == 3

\* "", "foo", "a"
EntryPool == { <<>>, <<102, 111, 111>>, <<97>> }
EntryLists == UNION {[1 .. n -> EntryPool] : n \in 0 .. MaxEntries}

\* A sequence starts as the baked key buffer, or as a list of entries still
\* to be written.
SeqStarts ==
    {<<"baked", <<>>, ParentsKeyBytes>>}
        \cup {<<"init", es, <<>> >> : es \in EntryLists}

WriteEntries ==
    /\ seqOp = "init"
    /\ seqBuf' = KeyBuffer(seqItems)
    /\ seqOp' = "written"
    /\ UNCHANGED <<seqItems, seqAt, seqEntry, dateVars, eraVars, parseVars,
                   mapVars, walkVars, ctorVars>>

ReadEntry(i) ==
    /\ seqOp \in {"baked", "written"}
    /\ seqEntry = Nothing
    /\ seqAt' = i
    /\ seqEntry' = Some(VzvGet(seqBuf, i))
    /\ UNCHANGED <<seqItems, seqBuf, seqOp, dateVars, eraVars, parseVars,
                   mapVars, walkVars, ctorVars>>

\* The number of entries of the sequence, once it has a buffer.
SeqLen == IF seqOp \in {"baked", "written"} THEN VzvLen(seqBuf) ELSE 0

SeqNext ==
    \/ WriteEntries
    \/ \E i \in 0 .. (SeqLen - 1) : ReadEntry(i)

-----------------------------------------------------------------------------
(* The specifications: one scenario each, the other parts staying idle.    *)

\* Two dates are drawn, compared, and the first one is encoded and decoded.
DateInit ==
    /\ a \in Dates
    /\ b \in Dates
    /\ cmpResult = None
    /\ bytes = <<>>
    /\ decoded = None
    /\ dateOp = "init"
    /\ table = <<>>
    /\ query = None
    /\ resolved = None
    /\ eraOp = "idle"
    /\ input = <<>>
    /\ parsed = None
    /\ parseOp = "idle"
    /\ fmap = None
    /\ key = <<>>
    /\ got = None
    /\ mapOp = "idle"
    /\ wmap = None
    /\ start = <<>>
    /\ chain = <<>>
    /\ steps = 0
    /\ status = "idle"
    /\ seqItems = <<>>
    /\ seqBuf = <<>>
    /\ seqAt = 0
    /\ seqEntry = Nothing
    /\ seqOp = "idle"
    /\ parts = None
    /\ built = Nothing
    /\ ctorErr = None
    /\ ctorOp = "idle"
    /\ probe = <<>>
    /\ probed = Nothing

SpecDate == DateInit /\ [][DateNext]_vars

\* A sorted era table and a query date are drawn and the era is resolved.
EraInit ==
    /\ a = None
    /\ b = None
    /\ cmpResult = None
    /\ bytes = <<>>
    /\ decoded = None
    /\ dateOp = "idle"
    /\ table \in {EraTable(s) : s \in StartLists}
    /\ query \in EraDates
    /\ resolved = None
    /\ eraOp = "init"
    /\ input = <<>>
    /\ parsed = None
    /\ parseOp = "idle"
    /\ fmap = None
    /\ key = <<>>
    /\ got = None
    /\ mapOp = "idle"
    /\ wmap = None
    /\ start = <<>>
    /\ chain = <<>>
    /\ steps = 0
    /\ status = "idle"
    /\ seqItems = <<>>
    /\ seqBuf = <<>>
    /\ seqAt = 0
    /\ seqEntry = Nothing
    /\ seqOp = "idle"
    /\ parts = None
    /\ built = Nothing
    /\ ctorErr = None
    /\ ctorOp = "idle"
    /\ probe = <<>>
    /\ probed = Nothing

SpecEra == EraInit /\ [][EraNext]_vars

\* An input string is drawn and parsed.
ParseInit ==
    /\ a = None
    /\ b = None
    /\ cmpResult = None
    /\ bytes = <<>>
    /\ decoded = None
    /\ dateOp = "idle"
    /\ table = <<>>
    /\ query = None
    /\ resolved = None
    /\ eraOp = "idle"
    /\ input \in Inputs
    /\ parsed = None
    /\ parseOp = "init"
    /\ fmap = None
    /\ key = <<>>
    /\ got = None
    /\ mapOp = "idle"
    /\ wmap = None
    /\ start = <<>>
    /\ chain = <<>>
    /\ steps = 0
    /\ status = "idle"
    /\ seqItems = <<>>
    /\ seqBuf = <<>>
    /\ seqAt = 0
    /\ seqEntry = Nothing
    /\ seqOp = "idle"
    /\ parts = None
    /\ built = Nothing
    /\ ctorErr = None
    /\ ctorOp = "idle"
    /\ probe = <<>>
    /\ probed = Nothing

SpecParse == ParseInit /\ [][ParseNext]_vars

\* A map and a key are drawn and the key is looked up.
MapInit ==
    /\ a = None
    /\ b = None
    /\ cmpResult = None
    /\ bytes = <<>>
    /\ decoded = None
    /\ dateOp = "idle"
    /\ table = <<>>
    /\ query = None
    /\ resolved = None
    /\ eraOp = "idle"
    /\ input = <<>>
    /\ parsed = None
    /\ parseOp = "idle"
    /\ \E q \in MapQueries : fmap = q[1] /\ key = q[2]
    /\ got = None
    /\ mapOp = "init"
    /\ wmap = None
    /\ start = <<>>
    /\ chain = <<>>
    /\ steps = 0
    /\ status = "idle"
    /\ seqItems = <<>>
    /\ seqBuf = <<>>
    /\ seqAt = 0
    /\ seqEntry = Nothing
    /\ seqOp = "idle"
    /\ parts = None
    /\ built = Nothing
    /\ ctorErr = None
    /\ ctorOp = "idle"
    /\ probe = <<>>
    /\ probed = Nothing

SpecMap == MapInit /\ [][MapNext]_vars

\* A map and a locale are drawn and the chain is walked from the locale, which is yielded first.
WalkInit ==
    /\ a = None
    /\ b = None
    /\ cmpResult = None
    /\ bytes = <<>>
    /\ decoded = None
    /\ dateOp = "idle"
    /\ table = <<>>
    /\ query = None
    /\ resolved = None
    /\ eraOp = "idle"
    /\ input = <<>>
    /\ parsed = None
    /\ parseOp = "idle"
    /\ fmap = None
    /\ key = <<>>
    /\ got = None
    /\ mapOp = "idle"
    /\ \E w \in Walks : wmap = w[1] /\ start = w[2] /\ chain = <<w[2]>>
    /\ steps = 0
    /\ status = "walking"
    /\ seqItems = <<>>
    /\ seqBuf = <<>>
    /\ seqAt = 0
    /\ seqEntry = Nothing
    /\ seqOp = "idle"
    /\ parts = None
    /\ built = Nothing
    /\ ctorErr = None
    /\ ctorOp = "idle"
    /\ probe = <<>>
    /\ probed = Nothing

SpecWalk == WalkInit /\ [][WalkNext]_vars

\* Two buffers are drawn, a map is constructed from them with or without validation, and a key is looked up in it.
CtorInit ==
    /\ a = None
    /\ b = None
    /\ cmpResult = None
    /\ bytes = <<>>
    /\ decoded = None
    /\ dateOp = "idle"
    /\ table = <<>>
    /\ query = None
    /\ resolved = None
    /\ eraOp = "idle"
    /\ input = <<>>
    /\ parsed = None
    /\ parseOp = "idle"
    /\ fmap = None
    /\ key = <<>>
    /\ got = None
    /\ mapOp = "idle"
    /\ wmap = None
    /\ start = <<>>
    /\ chain = <<>>
    /\ steps = 0
    /\ status = "idle"
    /\ seqItems = <<>>
    /\ seqBuf = <<>>
    /\ seqAt = 0
    /\ seqEntry = Nothing
    /\ seqOp = "idle"
    /\ parts \in PartsPool
    /\ built = Nothing
    /\ ctorErr = None
    /\ ctorOp = "init"
    /\ probe = <<>>
    /\ probed = Nothing

SpecCtor == CtorInit /\ [][CtorNext]_vars

\* A sequence is drawn, the baked key buffer or a list of entries that is written into a buffer, and an entry is read by its index.
SeqInit ==
    /\ a = None
    /\ b = None
    /\ cmpResult = None
    /\ bytes = <<>>
    /\ decoded = None
    /\ dateOp = "idle"
    /\ table = <<>>
    /\ query = None
    /\ resolved = None
    /\ eraOp = "idle"
    /\ input = <<>>
    /\ parsed = None
    /\ parseOp = "idle"
    /\ fmap = None
    /\ key = <<>>
    /\ got = None
    /\ mapOp = "idle"
    /\ wmap = None
    /\ start = <<>>
    /\ chain = <<>>
    /\ steps = 0
    /\ status = "idle"
    /\ \E s \in SeqStarts : seqOp = s[1] /\ seqItems = s[2] /\ seqBuf = s[3]
    /\ seqAt = 0
    /\ seqEntry = Nothing
    /\ parts = None
    /\ built = Nothing
    /\ ctorErr = None
    /\ ctorOp = "idle"
    /\ probe = <<>>
    /\ probed = Nothing

SpecSeq == SeqInit /\ [][SeqNext]_vars

-----------------------------------------------------------------------------
(* Properties of the date operations.                                      *)

\* The order the era table relies on, written out field by field.
LexLess(x, y) ==
    \/ x.year < y.year
    \/ x.year = y.year /\ x.month < y.month
    \/ x.year = y.year /\ x.month = y.month /\ x.day < y.day

AllFieldsEqual(x, y) == x.year = y.year /\ x.month = y.month /\ x.day = y.day

Reverse(c) == IF c = "Less" THEN "Greater" ELSE IF c = "Greater" THEN "Less" ELSE c

\* C1: the derived ordering of EraStartDate is lexicographic on (year, month,
\* day): a < b exactly when the first differing field among year, month, day
\* is smaller in a; a == b exactly when all three fields are equal; the order
\* is total (exactly one of <, ==, > holds, it is antisymmetric and
\* transitive), and the year is compared as a signed value, so that a negative
\* year sorts before a non-negative one.
C1_DerivedOrderIsLexicographic ==
    dateOp = "cmp" =>
        /\ cmpResult.ord \in {"Less", "Equal", "Greater"}
        /\ (cmpResult.ord = "Less") <=> LexLess(a, b)
        /\ (cmpResult.ord = "Greater") <=> LexLess(b, a)
        /\ (cmpResult.ord = "Equal") <=> AllFieldsEqual(a, b)
        /\ cmpResult.eq <=> AllFieldsEqual(a, b)
        /\ DateCmp(b, a) = Reverse(cmpResult.ord)
        /\ (a.year < 0 /\ b.year >= 0) => cmpResult.ord = "Less"
        /\ \A c \in Dates :
              (cmpResult.ord # "Greater" /\ DateCmp(b, c) # "Greater")
                  => DateCmp(a, c) # "Greater"

\* A comparison the year decides against the month and the day: a negative
\* year with a later month and day still sorts first.
C1_Witness ==
    /\ dateOp = "cmp"
    /\ a.year < 0 /\ b.year > 0
    /\ a.month > b.month /\ a.day > b.day
    /\ cmpResult.ord = "Less"

\* C9: writing an EraStartDate (year any i32, month 1..12, day 1..31) to its
\* fixed-width bytes and reading them back yields the original value; the
\* bytes are the 4-byte year, least significant byte first, then the month
\* byte, then the day byte; and the bytes of each field are the same for
\* every record that has that field's value, whatever its other fields.
C9_RecordRoundTrip ==
    dateOp = "decoded" =>
        /\ decoded = a
        /\ Len(bytes) = EraStartDateWidth
        /\ \A i \in 1 .. Len(bytes) : bytes[i] \in 0 .. MaxU8
        /\ bytes[5] = a.month /\ bytes[6] = a.day
        /\ (a.year \in 0 .. MaxU8) => SubSeq(bytes, 1, 4) = <<a.year, 0, 0, 0>>
        /\ (a.year = -1) => SubSeq(bytes, 1, 4) = <<MaxU8, MaxU8, MaxU8, MaxU8>>
        /\ (a.year = 16909060) => SubSeq(bytes, 1, 4) = <<4, 3, 2, 1>>
        /\ (a.year = MinI32) => SubSeq(bytes, 1, 4) = <<0, 0, 0, SignBit>>
        /\ \A c \in Dates :
              /\ c.year = a.year => SubSeq(ToUnaligned(c), 1, 4) = SubSeq(bytes, 1, 4)
              /\ c.month = a.month => ToUnaligned(c)[5] = bytes[5]
              /\ c.day = a.day => ToUnaligned(c)[6] = bytes[6]

\* A round trip of the smallest year, whose bytes use the sign bit, and one of
\* a year that needs all four bytes.
C9_Witness ==
    /\ dateOp = "decoded"
    /\ a.year \in {MinI32, 16909060}
    /\ a.month = 12 /\ a.day = 31
    /\ decoded = a

-----------------------------------------------------------------------------
(* Properties of the era lookup.                                           *)

\* The entries whose start date does not exceed d, by a scan of the table.
Covering(t, d) == {i \in 1 .. Len(t) : ~LexLess(d, t[i].start)}

LinearScan(t, d) ==
    IF Covering(t, d) = {} THEN Err(NoEraCovers)
    ELSE LET i == CHOOSE j \in Covering(t, d) :
                      \A k \in Covering(t, d) : ~LexLess(t[j].start, t[k].start)
         IN  Ok(t[i].code)

\* C2: on a table sorted strictly ascending by start date, resolve by binary
\* search answers as a linear scan does: the code of the entry with the
\* greatest start date <= d; the entry itself when d is its start date; and
\* NoEraCovers exactly when d is before the first start date or the table is
\* empty.
C2_ResolveMatchesLinearScan ==
    eraOp = "resolved" =>
        /\ resolved = LinearScan(table, query)
        /\ \A i \in 1 .. Len(table) :
              AllFieldsEqual(table[i].start, query) => resolved = Ok(table[i].code)
        /\ (resolved = Err(NoEraCovers)) <=>
              (table = <<>> \/ LexLess(query, table[1].start))

\* A lookup that lands on a start date in the middle of a full table, with an
\* earlier entry in the same year.
C2_Witness ==
    /\ eraOp = "resolved"
    /\ Len(table) = MaxEras
    /\ AllFieldsEqual(table[2].start, query)
    /\ table[1].start.year = query.year
    /\ resolved = Ok(table[2].code)

-----------------------------------------------------------------------------
(* Properties of the text parser.                                          *)

Dash == <<"-">>

DateText(y, m, d) == Dec(y) \o Dash \o Dec(m) \o Dash \o Dec(d)

\* The text after the optional leading '-', and its fields read off the
\* positions of the dashes.
Body(s) == IF s # <<>> /\ s[1] = "-" THEN SubSeq(s, 2, Len(s)) ELSE s
DashAt(s) == {i \in 1 .. Len(s) : s[i] = "-"}
NthDash(s, k) ==
    CHOOSE p \in DashAt(s) : Cardinality({q \in DashAt(s) : q <= p}) = k
HasField(s, k) == Cardinality(DashAt(s)) >= k - 1
FieldText(s, k) ==
    SubSeq(s,
           IF k = 1 THEN 1 ELSE NthDash(s, k - 1) + 1,
           IF Cardinality(DashAt(s)) >= k THEN NthDash(s, k) - 1 ELSE Len(s))

\* A digit string denotes a value <= max: shorter than max's digits once the
\* leading zeros are dropped, or as long and not after them digit by digit.
Significant(ds) ==
    IF \A i \in 1 .. Len(ds) : ds[i] = "0" THEN <<"0">>
    ELSE SubSeq(ds, CHOOSE i \in 1 .. Len(ds) :
                        ds[i] # "0" /\ \A j \in 1 .. (i - 1) : ds[j] = "0",
                Len(ds))
DigitsAtMost(ds, max) ==
    LET sig == Significant(ds)
        top == Dec(max)
    IN  \/ Len(sig) < Len(top)
        \/ /\ Len(sig) = Len(top)
           /\ \/ sig = top
              \/ \E i \in 1 .. Len(sig) :
                    /\ DigitVal(sig[i]) < DigitVal(top[i])
                    /\ \A j \in 1 .. (i - 1) : sig[j] = top[j]

\* A field is a number of a type with maximum max: an optional '+', then one
\* or more digits whose value is at most max (a field holds no '-').
IsNumberUpTo(f, max) ==
    LET ds == IF f # <<>> /\ f[1] = "+" THEN Tail(f) ELSE f
    IN  /\ ds # <<>>
        /\ \A i \in 1 .. Len(ds) : ds[i] \in {DigitChars[j] : j \in 1 .. Radix}
        /\ DigitsAtMost(ds, max)

FieldMax(k) == IF k = 1 THEN MaxI32 ELSE MaxU8

\* C3: for a year magnitude Y in 0..=2147483647, a month M in 1..=12 and a
\* day D in 1..=31 written in decimal digits, from_str("Y-M-D") is Ok with
\* {Y, M, D} and from_str("-Y-M-D") is Ok with {-Y, M, D}: the leading '-'
\* negates the year and nothing else, and the product of the parsed year and
\* the sign never overflows an i32.
C3_ParseSignedDate ==
    parseOp = "parsed" =>
        /\ \A y \in YearMagnitudes, m \in FieldValues \cap (1 .. 12),
              d \in FieldValues \cap (1 .. 31) :
              /\ input = DateText(y, m, d) => parsed = Ok(EraStartDate(y, m, d))
              /\ input = Dash \o DateText(y, m, d)
                    => parsed = Ok(EraStartDate(-y, m, d))
        /\ input = <<"-", "1", "0", "0", "-", "0", "1", "-", "0", "1">>
              => parsed = Ok(EraStartDate(-100, 1, 1))
        /\ parsed.tag # "Overflow"

\* The largest year magnitude, negated.
C3_Witness ==
    /\ parseOp = "parsed"
    /\ input = Dash \o DateText(MaxI32, 12, 31)
    /\ parsed = Ok(EraStartDate(-MaxI32, 12, 31))

\* C4: from_str returns the parse error whenever one of the fields year,
\* month, day (the first three '-'-separated fields after the optional
\* leading '-') is missing or is not a number of its type (year i32, month
\* and day u8); the result is the error or a date with all three fields set,
\* never something in between; "abc", "2000-01", "2000-xx-01", "" and
\* "--5-01-01" are errors.
C4_ParseErrorOnBadField ==
    parseOp = "parsed" =>
        /\ (\E k \in 1 .. 3 :
               \/ ~HasField(Body(input), k)
               \/ ~IsNumberUpTo(FieldText(Body(input), k), FieldMax(k)))
              => parsed = Err(UnitErr)
        /\ \/ parsed = Err(UnitErr)
           \/ /\ parsed.tag = "Ok"
              /\ DOMAIN parsed.val = {"year", "month", "day"}
              /\ IsI32(parsed.val.year)
              /\ IsU8(parsed.val.month) /\ IsU8(parsed.val.day)
        /\ input \in ExampleInputs
              /\ input # <<"-", "1", "0", "0", "-", "0", "1", "-", "0", "1">>
              => parsed = Err(UnitErr)

\* A string with a year and a month but no day.
C4_Witness ==
    /\ parseOp = "parsed"
    /\ input = <<"2", "0", "0", "0", "-", "0", "1">>
    /\ parsed = Err(UnitErr)

\* C10 (as claimed): every date from_str returns has its month in 1..=12 and
\* its day in 1..=31, so a month or day outside that domain is rejected.
C10_ParsedMonthDayInDomain ==
    (parseOp = "parsed" /\ parsed.tag = "Ok") =>
        parsed.val.month \in 1 .. 12 /\ parsed.val.day \in 1 .. 31

-----------------------------------------------------------------------------
(* Properties of the map lookups.                                          *)

KeyIndices(m) == 0 .. (VzvLen(m.keys) - 1)

\* C5: on the baked map and on every map whose keys are strictly ascending
\* byte-wise, get(k) is Some(values[i]) when k is keys[i], for every index i,
\* and None when k is none of the keys ("en", "en-US", "zz" and "" are none
\* of the baked keys).
C5_GetFindsExactlyTheKeys ==
    mapOp = "got" =>
        /\ \A i \in KeyIndices(fmap) :
              key = VzvGet(fmap.keys, i) => got = ZvGet(fmap.values, i)
        /\ (\A i \in KeyIndices(fmap) : key # VzvGet(fmap.keys, i)) => got = Nothing
        /\ (got.tag = "Some") <=> (\E i \in KeyIndices(fmap) : key = VzvGet(fmap.keys, i))
        /\ (fmap = UND /\ key \in AbsentKeys) => got = Nothing

\* The lookup of the second baked key, "en-AG", whose parent is "en-001".
C5_Witness ==
    /\ mapOp = "got"
    /\ fmap = UND
    /\ key = <<101, 110, 45, 65, 71>>
    /\ got = Some(RecordOf(Locale(<<101, 110>>, <<>>, <<48, 48, 49>>)))

-----------------------------------------------------------------------------
(* Properties of the fallback chain walker.                                *)

\* The parent of a key read off the map by a scan of its keys.
ScanParent(m, k) ==
    IF \E i \in KeyIndices(m) : VzvGet(m.keys, i) = k
    THEN LET i == CHOOSE j \in KeyIndices(m) : VzvGet(m.keys, j) = k
         IN  Some(LocaleKey(LocaleOf(ZvGet(m.values, i).val)))
    ELSE Nothing

\* The number of parent links from k to a locale with no parent, or -1 when
\* the links from k run into a cycle (more links than the map has keys).
RECURSIVE CountLinks(_, _, _, _)
CountLinks(m, k, fuel, n) ==
    LET r == ScanParent(m, k)
    IN  IF r = Nothing THEN n
        ELSE IF fuel = 0 THEN -1
        ELSE CountLinks(m, r.val, fuel - 1, n + 1)

LinksFrom(m, k) == CountLinks(m, k, VzvLen(m.keys), 0)

AcyclicMap(m) == \A k \in KeysOf(m) : LinksFrom(m, k) >= 0
UndIsAcyclic == AcyclicMap(UND)
LongChainIsAcyclic == AcyclicMap(LongChainMap)
IsAcyclic(m) ==
    IF m = UND THEN UndIsAcyclic
    ELSE IF m = LongChainMap THEN LongChainIsAcyclic
    ELSE AcyclicMap(m)

\* The chain starts at the locale and each later element is the parent of
\* the one before it: every link of a walk that has ended, the newest link of
\* one still under way (its earlier links were the newest ones before).
ChainFollowsParents ==
    /\ chain[1] = start
    /\ \A i \in 1 .. (Len(chain) - 1) :
          (status # "walking" \/ i = Len(chain) - 1)
              => ScanParent(wmap, chain[i]) = Some(chain[i + 1])

\* A step from a walk under way ends it or adds one step within the bound,
\* so no walk goes on forever.
StepMakesProgress ==
    status = "walking" =>
        LET w == Advance(wmap, chain, steps)
        IN  \/ w.status # "walking"
            \/ w.steps = steps + 1 /\ w.steps <= MaxSteps

C7_CycleIsBoundedAndSurfaced ==
    status # "idle" =>
        /\ steps <= MaxSteps /\ Len(chain) = steps + 1
        /\ status \in {"walking", "done", "FallbackCycle"}
        /\ StepMakesProgress
        /\ status = "done" => ScanParent(wmap, chain[Len(chain)]) = Nothing
        /\ status = "FallbackCycle" =>
              /\ steps = MaxSteps
              /\ ScanParent(wmap, chain[Len(chain)]) # Nothing
        /\ (LinksFrom(wmap, start) = -1 /\ status # "walking")
              => status = "FallbackCycle"
        /\ (LinksFrom(wmap, start) >= 0 /\ LinksFrom(wmap, start) < MaxSteps)
              => status # "FallbackCycle"

\* A walk around a cycle that used up the step count.
C7_Witness ==
    /\ status = "FallbackCycle"
    /\ LinksFrom(wmap, start) = -1
    /\ steps = MaxSteps
    /\ \E i \in 1 .. (Len(chain) - 1) : chain[i] = chain[Len(chain)]

-----------------------------------------------------------------------------
(* Properties of construction.                                             *)

\* x is before y byte-wise: they agree up to a place where x has ended and y
\* has not, or where x has the smaller byte.
BytesBefore(x, y) ==
    \E i \in 1 .. (Len(y)) :
        /\ \A j \in 1 .. (i - 1) : j <= Len(x) /\ x[j] = y[j]
        /\ i > Len(x) \/ (i <= Len(x) /\ x[i] < y[i])

\* The buffers given break a map invariant: the counts differ, or some key
\* is not before every later key.
Malformed(p) ==
    \/ VzvLen(p.keys) # ZvLen(p.values)
    \/ \E i, j \in 1 .. VzvLen(p.keys) :
          i < j /\ ~BytesBefore(KeySeq(p.keys)[i], KeySeq(p.keys)[j])

-----------------------------------------------------------------------------
(* Properties of the variable-length sequence layout.                      *)

\* The buffer read as a header of n + 1 offsets of w bytes each, then the
\* payload: the first offset is 0, the last one is the length of the
\* payload, and no offset is smaller than the one before it.
OffsetAt(buf, w, i) == FromLeBytes(SubSeq(buf, w * i + 1, w * (i + 1)))
HeaderOfOffsets(buf, w, n) ==
    /\ Len(buf) >= w * (n + 1)
    /\ OffsetAt(buf, w, 0) = 0
    /\ OffsetAt(buf, w, n) = Len(buf) - w * (n + 1)
    /\ \A i \in 0 .. (n - 1) : OffsetAt(buf, w, i) <= OffsetAt(buf, w, i + 1)

\* C11 (as claimed): the buffer of every sequence starts with n + 1
\* fixed-width offsets, the first 0, the last the length of the payload,
\* never decreasing, for some offset width and some n.
C11_HeaderIsNPlusOneOffsets ==
    seqOp \in {"baked", "written"} =>
        \E w \in 1 .. LenWidth :
            \E n \in 0 .. (Len(seqBuf) \div w) : HeaderOfOffsets(seqBuf, w, n)

\* The end of entry i in the payload: the next stored offset, or the length
\* of the payload for the last entry.
EntryEnd(buf, i) ==
    IF i + 1 < VzvLen(buf) THEN VzvIndex(buf, i + 1)
    ELSE Len(buf) - VzvDataStart(buf)
Payload(buf) == SubSeq(buf, VzvDataStart(buf) + 1, Len(buf))

\* C11 (amended): the buffer starts with the count n (4 bytes), then n
\* offsets (2 bytes each), then the payload; the first offset is 0, no offset
\* is smaller than the one before it or larger than the payload; entry i is
\* the payload range from offset i to offset i + 1 (to the end of the payload
\* for the last entry), so entries of length zero are legal; and an entry
\* read from a written buffer is the entry that was written.
C11_HeaderIsCountThenOffsets ==
    seqOp \in {"baked", "written"} =>
        LET n == VzvLen(seqBuf)
        IN  /\ Len(seqBuf) >= VzvDataStart(seqBuf)
            /\ n > 0 => VzvIndex(seqBuf, 0) = 0
            /\ \A i \in 0 .. (n - 1) : VzvIndex(seqBuf, i) <= EntryEnd(seqBuf, i)
            /\ seqOp = "written" => n = Len(seqItems)
            /\ seqOp = "baked" => n = ZvLen(ParentsValueBytes)
            /\ seqEntry # Nothing =>
                  /\ seqAt < n
                  /\ seqEntry.val =
                        SubSeq(Payload(seqBuf), VzvIndex(seqBuf, seqAt) + 1,
                               EntryEnd(seqBuf, seqAt))
                  /\ seqOp = "written" => seqEntry.val = seqItems[seqAt + 1]
                  /\ seqOp = "baked" => seqEntry.val # <<>>

\* "", "foo", "" written as count 3, offsets 0, 0, 3 and payload "foo"; the
\* entry at index 1 is read back as "foo".
C11_Witness ==
    /\ seqOp = "written"
    /\ seqItems = << <<>>, <<102, 111, 111>>, <<>> >>
    /\ seqBuf = <<3, 0, 0, 0, 0, 0, 0, 0, 3, 0, 102, 111, 111>>
    /\ seqAt = 1
    /\ seqEntry = Some(<<102, 111, 111>>)

-----------------------------------------------------------------------------
(* Properties of the baked map's data.                                     *)

UndKeys == KeySeq(UND.keys)

\* Each baked key is before the next one byte-wise, and no key occurs twice.
UndKeysStrictlyAscending ==
    /\ \A i \in 1 .. (Len(UndKeys) - 1) : BytesBefore(UndKeys[i], UndKeys[i + 1])
    /\ \A i, j \in 1 .. Len(UndKeys) : i # j => UndKeys[i] # UndKeys[j]

\* The value buffer is a whole number of records, one for each key.
UndCountsMatch ==
    /\ Len(UND.values) % RecordWidth = 0
    /\ Len(UND.values) \div RecordWidth = Len(UndKeys)
    /\ VzvLen(UND.keys) = ZvLen(UND.values)

NoRepeats(s) == \A i, j \in 1 .. Len(s) : i # j => s[i] # s[j]

\* C12: the baked map, built unchecked, keeps the map invariants: its keys
\* are strictly ascending byte-wise without duplicates, it has one value
\* record of RecordWidth bytes for each key and no bytes left over, and the
\* parent links followed from any of its keys never come back to a key
\* already visited and end at a locale with no parent.
C12_BakedMapKeepsInvariants ==
    /\ UndKeysStrictlyAscending
    /\ UndCountsMatch
    /\ UndIsAcyclic
    /\ (wmap = UND /\ status # "idle") =>
          /\ NoRepeats(chain)
          /\ status # "FallbackCycle"
          /\ Len(chain) <= Len(UndKeys) + 1
          /\ (status = "done" /\ start \in KeysOf(UND)) =>
                /\ Len(chain) >= 2
                /\ chain[Len(chain)] \notin KeysOf(UND)
                /\ ScanParent(UND, chain[Len(chain)]) = Nothing

\* The links followed from "en-AT": "en-150", then "en-001", which has no
\* parent.
C12_Witness ==
    /\ status = "done"
    /\ wmap = UND
    /\ start = <<101, 110, 45, 65, 84>>
    /\ chain = << <<101, 110, 45, 65, 84>>, <<101, 110, 45, 49, 53, 48>>,
                  <<101, 110, 45, 48, 48, 49>> >>

====
